---- MODULE Spec2Model ----
(***************************************************************************)
(* The bounded image augmentation pipeline of packages/ml-core             *)
(* (dist/augmentation.js) on top of the TensorFlow.js tensor engine, as a  *)
(* state machine driven the way the package's test suite drives it: one    *)
(* input tensor, one call at a time, the result disposed by the caller     *)
(* before the next call (Spec).  A second specification, SpecBatch, lets   *)
(* the caller hold several results at a time and dispose them in any       *)
(* order; SpecDrawn keeps the random draws of an augment call in view;     *)
(* SpecZoom calls zoom with every factor of its domain and records the     *)
(* layout it works out; SpecSized feeds shift and zoom square inputs of     *)
(* other sizes than the canvas.  SpecWeb is the drawing component of        *)
(* apps/web (MNISTDigitRecognition.tsx): its event handlers and the         *)
(* continuations of its prediction requests.                                *)
(*                                                                         *)
(* Numbers.  JavaScript numbers are modelled in fixed point: angles, zoom  *)
(* and shear factors are integers in units of 1/Unit, Math.random() draws  *)
(* integers in units of 1/RandomScale, pixel intensities integers in units *)
(* of 1/PixScale.  Pixel shifts and sizes are plain integers.              *)
(*                                                                         *)
(* Images.  The data of a tensor of shape <<rows, cols, 1>> is a sequence  *)
(* of rows, each a sequence of intensities (1-based; pixel (r, c) of the   *)
(* code is pix[r + 1][c + 1]).                                             *)
(***************************************************************************)
EXTENDS Integers, Sequences, FiniteSets, TLC

Unit == 10000
PixScale == 1000
RandomScale == 100

\* ------------------------------------------------------------------ bounds
NumNoiseFields == 2
\* prediction requests of the web component under way at the same time
MaxInFlight == 2

\* ------------------------------------------------------- program constants
MAX_ROTATION == 15 * Unit
MAX_SHIFT_PIXELS == 4
CANVAS_SIZE == 28
MIN_ZOOM == (8 * Unit) \div 10
MAX_ZOOM == (12 * Unit) \div 10
MIN_SHEAR == 0 - (2 * Unit) \div 10
MAX_SHEAR == (2 * Unit) \div 10
\* the copy-path thresholds: |angle| < 0.1, |zoom - 1.0| < 0.001, |shear| < 0.001
ROTATION_EPSILON == Unit \div 10
ZOOM_EPSILON == Unit \div 1000
SHEAR_EPSILON == Unit \div 1000
ONE == Unit

DefaultAngleRange == [min |-> 0 - 15 * Unit, max |-> 15 * Unit]
DefaultShiftRange == [width |-> 4, height |-> 4]
DefaultZoomRange == [min |-> (8 * Unit) \div 10, max |-> (12 * Unit) \div 10]
DefaultShearRange == [min |-> 0 - (2 * Unit) \div 10, max |-> (2 * Unit) \div 10]

\* ------------------------------------------------------------ JS helpers
Abs(x) == IF x < 0 THEN 0 - x ELSE x
Min(a, b) == IF a < b THEN a ELSE b
Max(a, b) == IF a > b THEN a ELSE b

\* An optional argument: None is undefined, Some(x) an explicit value.
None == << >>
Some(x) == << x >>

\* a ?? b
Nullish(a, b) == IF a = None THEN b ELSE a[1]

\* (variant: the interval laid out from max upwards)
SampleUniform_fromMax(rnd, range) ==
    (rnd * (range.max - range.min)) \div RandomScale + range.max
\* Math.random() * (max - min) + min, with Math.random() = rnd / RandomScale
\* in [0, 1)
SampleUniform(rnd, range) ==
    (rnd * (range.max - range.min)) \div RandomScale + range.min

\* (variant: one value too many in the sampled interval)
SampleShift_wide(rnd, bound) == ((rnd * (bound * 2 + 2)) \div RandomScale) - bound
\* (variant: Math.round in place of Math.floor)
SampleShift_round(rnd, bound) ==
    ((2 * rnd * (bound * 2 + 1) + RandomScale) \div (2 * RandomScale)) - bound
\* Math.floor(Math.random() * (bound * 2 + 1)) - bound
SampleShift(rnd, bound) == ((rnd * (bound * 2 + 1)) \div RandomScale) - bound

\* Math.round(CANVAS_SIZE * zoom): round half up of a value in units of 1/Unit
RoundUnits(x) == (2 * x + Unit) \div (2 * Unit)

\* ----------------------------------------------------------- pixel kernels
Rows(pix) == Len(pix)
Cols(pix) == IF Len(pix) = 0 THEN 0 ELSE Len(pix[1])
ShapeOf(pix) == << Rows(pix), Cols(pix), 1 >>

Zeros(n) == [i \in 1..n |-> 0]

\* tf.pad3d(x, [[top, bottom], [left, right], [0, 0]], 0)
pad3d(pix, top, bottom, left, right) ==
    LET w == Cols(pix) + left + right
        body == [r \in 1..Rows(pix) |-> Zeros(left) \o pix[r] \o Zeros(right)]
    IN [r \in 1..top |-> Zeros(w)] \o body \o [r \in 1..bottom |-> Zeros(w)]

\* slice_util.assertParamsValid: begin[i] + size[i] <= shape[i] on every axis
sliceParamsValid(pix, r0, c0, h, w) ==
    /\ r0 + h <= Rows(pix)
    /\ c0 + w <= Cols(pix)

\* tf.slice3d(x, [r0, c0, 0], [h, w, 1])
slice3d(pix, r0, c0, h, w) ==
    [r \in 1..h |-> SubSeq(pix[r0 + r], c0 + 1, c0 + w)]

\* tf.randomNormal(shape, 0, noiseAmount): one of the sample fields the
\* generator can produce.  Field k draws, at pixel (r, c), the standard
\* normal value z = ((3r + 5c + k) mod 5) - 2, scaled by the standard
\* deviation noiseAmount (in units of 1/Unit).
NoiseZ(k, r, c) == ((3 * r + 5 * c + k) % 5) - 2

randomNormal(rows, cols, noiseAmount, k) ==
    [r \in 1..rows |-> [c \in 1..cols |->
        (NoiseZ(k, r, c) * noiseAmount * PixScale) \div Unit]]

\* tf.addN([a, b])
addN(a, b) == [r \in 1..Rows(a) |-> [c \in 1..Cols(a) |-> a[r][c] + b[r][c]]]

\* (variant: only the lower limit applied)
clipByValue_lowerOnly(pix, lo, hi) ==
    [r \in 1..Rows(pix) |-> [c \in 1..Cols(pix) |-> Max(pix[r][c], lo)]]
\* x.clipByValue(0, 1)
clipByValue(pix, lo, hi) ==
    [r \in 1..Rows(pix) |-> [c \in 1..Cols(pix) |-> Min(Max(pix[r][c], lo), hi)]]

\* tf.image.resizeBilinear(x, [newH, newW]) with alignCorners = false: output
\* (r, c) reads the source position (r * old / new, c * old / new) and blends
\* the four neighbours, the ceil neighbour clamped to the last row / column.
resizeBilinear(pix, newH, newW) ==
    LET oldH == Rows(pix)
        oldW == Cols(pix)
        val(r, c) ==
            LET fr == (r * oldH) \div newH
                rr == (r * oldH) % newH
                cr == Min(oldH - 1, IF rr > 0 THEN fr + 1 ELSE fr)
                fc == (c * oldW) \div newW
                rc == (c * oldW) % newW
                cc == Min(oldW - 1, IF rc > 0 THEN fc + 1 ELSE fc)
                topLeft == pix[fr + 1][fc + 1]
                topRight == pix[fr + 1][cc + 1]
                bottomLeft == pix[cr + 1][fc + 1]
                bottomRight == pix[cr + 1][cc + 1]
                top == topLeft + ((topRight - topLeft) * rc) \div newW
                bottom == bottomLeft + ((bottomRight - bottomLeft) * rc) \div newW
            IN top + ((bottom - top) * rr) \div newH
    IN [r \in 1..newH |-> [c \in 1..newW |-> val(r - 1, c - 1)]]

\* ------------------------------------------------------- the tensor engine
\* tensors: live tensor id -> [shape, dataId]; data: dataId -> [refs, pix];
\* scopes: the stack of tf.tidy scopes, each the set of tensor ids it tracks.
EmptyEngine ==
    [tensors |-> << >>, data |-> << >>, nextTensorId |-> 0, nextDataId |-> 0,
     scopes |-> << >>]

NumTensors(e) == Cardinality(DOMAIN e.tensors)
IsLive(e, t) == t \in DOMAIN e.tensors
PixOf(e, t) == e.data[e.tensors[t].dataId].pix
ShapeOfTensor(e, t) == e.tensors[t].shape
\* the id of the tensor the engine created last
LastId(e) == e.nextTensorId - 1

\* Engine.track: a new tensor belongs to the innermost open scope, if any
track(e, t) ==
    IF e.scopes = << >> THEN e
    ELSE [e EXCEPT !.scopes[Len(e.scopes)] = @ \cup {t}]

\* Engine.makeTensor: a new tensor over new data
makeTensor(e, pix) ==
    track([e EXCEPT !.tensors = @ @@ (e.nextTensorId :>
                          [shape |-> ShapeOf(pix), dataId |-> e.nextDataId]),
                    !.data = @ @@ (e.nextDataId :> [refs |-> 1, pix |-> pix]),
                    !.nextTensorId = @ + 1,
                    !.nextDataId = @ + 1],
          e.nextTensorId)

\* Tensor.clone: a new tensor handle on the same data (one more reference)
clone(e, t) ==
    LET d == e.tensors[t].dataId
    IN track([e EXCEPT !.tensors = @ @@ (e.nextTensorId :>
                             [shape |-> e.tensors[t].shape, dataId |-> d]),
                       !.data[d].refs = @ + 1,
                       !.nextTensorId = @ + 1],
             e.nextTensorId)

\* Disposing a set of handles: each live one is removed and releases one
\* reference of its data; data without references is freed.  Disposing a
\* handle that is already disposed does nothing.
disposeAll(e, S) ==
    LET gone == S \cap DOMAIN e.tensors
        left == DOMAIN e.tensors \ gone
        refsLeft(d) == e.data[d].refs
                         - Cardinality({t \in gone : e.tensors[t].dataId = d})
        kept == {d \in DOMAIN e.data : refsLeft(d) > 0}
    IN [e EXCEPT !.tensors = [t \in left |-> e.tensors[t]],
                 !.data = [d \in kept |->
                              [refs |-> refsLeft(d), pix |-> e.data[d].pix]]]

\* Tensor.dispose
dispose(e, t) == disposeAll(e, {t})

\* Engine.startScope
startScope(e) == [e EXCEPT !.scopes = Append(@, {})]

\* Engine.endScope(result): every tensor the scope tracks is disposed except
\* the result, which the enclosing scope (if any) tracks from now on.  keep
\* is {result}, or {} when the scope ends because its function threw.
\* (variant: the scope is closed without disposing what it tracks)
endScope_keepAll(e, keep) ==
    LET top == e.scopes[Len(e.scopes)]
        e2 == [e EXCEPT !.scopes = SubSeq(@, 1, Len(@) - 1)]
    IN IF e2.scopes = << >> THEN e2
       ELSE [e2 EXCEPT !.scopes[Len(e2.scopes)] = @ \cup top]
endScope(e, keep) ==
    LET top == e.scopes[Len(e.scopes)]
        e1 == disposeAll(e, top \ keep)
        e2 == [e1 EXCEPT !.scopes = SubSeq(@, 1, Len(@) - 1)]
    IN IF e2.scopes = << >> THEN e2
       ELSE [e2 EXCEPT !.scopes[Len(e2.scopes)] = @ \cup (keep \cap top)]

\* ------------------------------------------------------------ call results
NoError == [kind |-> "none", param |-> "", value |-> 0, limit |-> << >>]
RangeViolation(param, value, limit) ==
    [kind |-> "RangeViolation", param |-> param, value |-> value, limit |-> limit]
SliceOverflow == [kind |-> "SliceOverflow", param |-> "", value |-> 0, limit |-> << >>]

\* return t / throw err, leaving the engine as e; used is the parameter
\* value the call worked with (explicit or sampled)
Returned(e, t, used) == [eng |-> e, ok |-> TRUE, out |-> t, err |-> NoError, used |-> used]
Thrown(e, err, used) == [eng |-> e, ok |-> FALSE, out |-> 0 - 1, err |-> err, used |-> used]

\* --------------------------------------------------------- the transforms
\* the constraint checks, one per parameter
\* (variant: the limit itself rejected)
rotationExceeds_inclusive(rotationAngle) == Abs(rotationAngle) >= MAX_ROTATION
rotationExceeds(rotationAngle) == Abs(rotationAngle) > MAX_ROTATION
\* (variant: the width never rejected)
widthExceeds_never(widthShift) == FALSE
widthExceeds(widthShift) == Abs(widthShift) > MAX_SHIFT_PIXELS
\* (variant: Math.abs forgotten)
heightExceeds_signed(heightShift) == heightShift > MAX_SHIFT_PIXELS
heightExceeds(heightShift) == Abs(heightShift) > MAX_SHIFT_PIXELS
\* (variant: the bounds themselves rejected)
zoomOutside_inclusive(zoom) == zoom <= MIN_ZOOM \/ zoom >= MAX_ZOOM
zoomOutside(zoom) == zoom < MIN_ZOOM \/ zoom > MAX_ZOOM
\* (variant: only the lower bound checked)
shearOutside_lowerOnly(shear) == shear < MIN_SHEAR
shearOutside(shear) == shear < MIN_SHEAR \/ shear > MAX_SHEAR

\* zoom, shrink branch: the padding before the resized content and after it
\* (variant: all the padding put after the content)
padBefore_none(newSize) == 0
padBefore(newSize) == (CANVAS_SIZE - newSize) \div 2
\* (variant: the same padding on both sides)
padAfter_same(newSize, padAmount) == padAmount
padAfter(newSize, padAmount) == CANVAS_SIZE - newSize - padAmount

\* zoom, enlarge branch: where the kept window starts in the resized image
\* (variant: half the resized size, not half the excess)
cropStartOf_fromSize(newSize) == newSize \div 2
cropStartOf(newSize) == (newSize - CANVAS_SIZE) \div 2

\* (variant: the copy path returns imageData itself, not a clone)
rotateAugmentation_sameHandle(e, imageData, angle, angleRange, rnd, nz) ==
    LET range == Nullish(angleRange, DefaultAngleRange)
        rotationAngle == Nullish(angle, SampleUniform(rnd, range))
    IN IF rotationExceeds(rotationAngle)
       THEN Thrown(e, RangeViolation("Rotation", rotationAngle, << MAX_ROTATION >>),
                   rotationAngle)
       ELSE LET e0 == startScope(e)
            IN IF Abs(rotationAngle) < ROTATION_EPSILON
               THEN Returned(endScope(e0, {imageData}), imageData, rotationAngle)
               ELSE LET noiseAmount == Abs(rotationAngle) \div 100
                        x == PixOf(e0, imageData)
                        e1 == makeTensor(e0, randomNormal(Rows(x), Cols(x), noiseAmount, nz))
                        noise == LastId(e1)
                        e2 == makeTensor(e1, addN(x, PixOf(e1, noise)))
                        e3 == makeTensor(e2, clipByValue(PixOf(e2, LastId(e2)), 0, PixScale))
                        rotated == LastId(e3)
                        e4 == dispose(e3, noise)
                    IN Returned(endScope(e4, {rotated}), rotated, rotationAngle)

\* rotateAugmentation(imageData, angle, angleRange): rnd is the Math.random()
\* draw, nz the sample field tf.randomNormal produces
rotateAugmentation(e, imageData, angle, angleRange, rnd, nz) ==
    LET range == Nullish(angleRange, DefaultAngleRange)
        rotationAngle == Nullish(angle, SampleUniform(rnd, range))
    IN IF rotationExceeds(rotationAngle)
       THEN Thrown(e, RangeViolation("Rotation", rotationAngle, << MAX_ROTATION >>),
                   rotationAngle)
       ELSE LET e0 == startScope(e)
            IN IF Abs(rotationAngle) < ROTATION_EPSILON
               THEN LET e1 == clone(e0, imageData)
                    IN Returned(endScope(e1, {LastId(e1)}), LastId(e1), rotationAngle)
               ELSE LET noiseAmount == Abs(rotationAngle) \div 100
                        x == PixOf(e0, imageData)
                        e1 == makeTensor(e0, randomNormal(Rows(x), Cols(x), noiseAmount, nz))
                        noise == LastId(e1)
                        e2 == makeTensor(e1, addN(x, PixOf(e1, noise)))
                        e3 == makeTensor(e2, clipByValue(PixOf(e2, LastId(e2)), 0, PixScale))
                        rotated == LastId(e3)
                        e4 == dispose(e3, noise)
                    IN Returned(endScope(e4, {rotated}), rotated, rotationAngle)

\* (variant: an explicit 0 taken for a missing value, as with || for ??)
ShiftField_falsy(shift, f) ==
    IF shift = None \/ shift[1][f] = << 0 >> THEN None ELSE shift[1][f]
\* shift?.width / shift?.height of an optional {width, height} object
ShiftField(shift, f) == IF shift = None THEN None ELSE shift[1][f]

\* (variant: the height checked before the width)
shiftAugmentation_heightFirst(e, imageData, shift, shiftRange, rw, rh) ==
    LET range == Nullish(shiftRange, DefaultShiftRange)
        widthShift == Nullish(ShiftField(shift, "width"), SampleShift(rw, range.width))
        heightShift == Nullish(ShiftField(shift, "height"), SampleShift(rh, range.height))
        used == [width |-> widthShift, height |-> heightShift]
    IN IF heightExceeds(heightShift)
       THEN Thrown(e, RangeViolation("Height shift", heightShift, << MAX_SHIFT_PIXELS >>), used)
       ELSE IF widthExceeds(widthShift)
       THEN Thrown(e, RangeViolation("Width shift", widthShift, << MAX_SHIFT_PIXELS >>), used)
       ELSE LET e0 == startScope(e)
                top == IF heightShift > 0 THEN heightShift ELSE 0
                bottom == IF heightShift < 0 THEN 0 - heightShift ELSE 0
                left == IF widthShift > 0 THEN widthShift ELSE 0
                right == IF widthShift < 0 THEN 0 - widthShift ELSE 0
                e1 == makeTensor(e0, pad3d(PixOf(e0, imageData), top, bottom, left, right))
                padded == PixOf(e1, LastId(e1))
            IN IF ~sliceParamsValid(padded, 0, 0, CANVAS_SIZE, CANVAS_SIZE)
               THEN Thrown(endScope(e1, {}), SliceOverflow, used)
               ELSE LET e2 == makeTensor(e1, slice3d(padded, 0, 0, CANVAS_SIZE, CANVAS_SIZE))
                    IN Returned(endScope(e2, {LastId(e2)}), LastId(e2), used)

\* shiftAugmentation(imageData, shift, shiftRange): rw, rh are the two
\* Math.random() draws
shiftAugmentation(e, imageData, shift, shiftRange, rw, rh) ==
    LET range == Nullish(shiftRange, DefaultShiftRange)
        widthShift == Nullish(ShiftField(shift, "width"), SampleShift(rw, range.width))
        heightShift == Nullish(ShiftField(shift, "height"), SampleShift(rh, range.height))
        used == [width |-> widthShift, height |-> heightShift]
    IN IF widthExceeds(widthShift)
       THEN Thrown(e, RangeViolation("Width shift", widthShift, << MAX_SHIFT_PIXELS >>), used)
       ELSE IF heightExceeds(heightShift)
       THEN Thrown(e, RangeViolation("Height shift", heightShift, << MAX_SHIFT_PIXELS >>), used)
       ELSE LET e0 == startScope(e)
                top == IF heightShift > 0 THEN heightShift ELSE 0
                bottom == IF heightShift < 0 THEN 0 - heightShift ELSE 0
                left == IF widthShift > 0 THEN widthShift ELSE 0
                right == IF widthShift < 0 THEN 0 - widthShift ELSE 0
                e1 == makeTensor(e0, pad3d(PixOf(e0, imageData), top, bottom, left, right))
                padded == PixOf(e1, LastId(e1))
            IN IF ~sliceParamsValid(padded, 0, 0, CANVAS_SIZE, CANVAS_SIZE)
               THEN Thrown(endScope(e1, {}), SliceOverflow, used)
               ELSE LET e2 == makeTensor(e1, slice3d(padded, 0, 0, CANVAS_SIZE, CANVAS_SIZE))
                    IN Returned(endScope(e2, {LastId(e2)}), LastId(e2), used)

\* (variant: the factor-1 path returns imageData itself, not a clone)
zoomAugmentation_sameHandle(e, imageData, zoomFactor, zoomRange, rnd) ==
    LET range == Nullish(zoomRange, DefaultZoomRange)
        zoom == Nullish(zoomFactor, SampleUniform(rnd, range))
    IN IF zoomOutside(zoom)
       THEN Thrown(e, RangeViolation("Zoom", zoom, << MIN_ZOOM, MAX_ZOOM >>), zoom)
       ELSE LET e0 == startScope(e)
            IN IF Abs(zoom - ONE) < ZOOM_EPSILON
               THEN Returned(endScope(e0, {imageData}), imageData, zoom)
               ELSE LET newSize == RoundUnits(CANVAS_SIZE * zoom)
                        e1 == makeTensor(e0, resizeBilinear(PixOf(e0, imageData), newSize, newSize))
                        resized == PixOf(e1, LastId(e1))
                    IN IF zoom > ONE
                       THEN LET cropStart == cropStartOf(newSize)
                            IN IF ~sliceParamsValid(resized, cropStart, cropStart,
                                                    CANVAS_SIZE, CANVAS_SIZE)
                               THEN Thrown(endScope(e1, {}), SliceOverflow, zoom)
                               ELSE LET e2 == makeTensor(e1,
                                              slice3d(resized, cropStart, cropStart,
                                                      CANVAS_SIZE, CANVAS_SIZE))
                                    IN Returned(endScope(e2, {LastId(e2)}), LastId(e2), zoom)
                       ELSE LET padAmount == padBefore(newSize)
                                rest == padAfter(newSize, padAmount)
                                e2 == makeTensor(e1,
                                          pad3d(resized, padAmount, rest, padAmount, rest))
                            IN Returned(endScope(e2, {LastId(e2)}), LastId(e2), zoom)

\* zoomAugmentation(imageData, zoomFactor, zoomRange)
zoomAugmentation(e, imageData, zoomFactor, zoomRange, rnd) ==
    LET range == Nullish(zoomRange, DefaultZoomRange)
        zoom == Nullish(zoomFactor, SampleUniform(rnd, range))
    IN IF zoomOutside(zoom)
       THEN Thrown(e, RangeViolation("Zoom", zoom, << MIN_ZOOM, MAX_ZOOM >>), zoom)
       ELSE LET e0 == startScope(e)
            IN IF Abs(zoom - ONE) < ZOOM_EPSILON
               THEN LET e1 == clone(e0, imageData)
                    IN Returned(endScope(e1, {LastId(e1)}), LastId(e1), zoom)
               ELSE LET newSize == RoundUnits(CANVAS_SIZE * zoom)
                        e1 == makeTensor(e0, resizeBilinear(PixOf(e0, imageData), newSize, newSize))
                        resized == PixOf(e1, LastId(e1))
                    IN IF zoom > ONE
                       THEN LET cropStart == cropStartOf(newSize)
                            IN IF ~sliceParamsValid(resized, cropStart, cropStart,
                                                    CANVAS_SIZE, CANVAS_SIZE)
                               THEN Thrown(endScope(e1, {}), SliceOverflow, zoom)
                               ELSE LET e2 == makeTensor(e1,
                                              slice3d(resized, cropStart, cropStart,
                                                      CANVAS_SIZE, CANVAS_SIZE))
                                    IN Returned(endScope(e2, {LastId(e2)}), LastId(e2), zoom)
                       ELSE LET padAmount == padBefore(newSize)
                                rest == padAfter(newSize, padAmount)
                                e2 == makeTensor(e1,
                                          pad3d(resized, padAmount, rest, padAmount, rest))
                            IN Returned(endScope(e2, {LastId(e2)}), LastId(e2), zoom)

\* (variant: the constraint enforced inside tf.tidy, after the noise tensor
\* is made)
shearAugmentation_checkInside(e, imageData, shearFactor, shearRange, rnd, nz) ==
    LET range == Nullish(shearRange, DefaultShearRange)
        shear == Nullish(shearFactor, SampleUniform(rnd, range))
        e0 == startScope(e)
        x == PixOf(e0, imageData)
        e1 == makeTensor(e0, randomNormal(Rows(x), Cols(x), Abs(shear) \div 10, nz))
        noise == LastId(e1)
    IN IF shearOutside(shear)
       THEN Thrown(endScope(e1, {}),
                   RangeViolation("Shear", shear, << MIN_SHEAR, MAX_SHEAR >>), shear)
       ELSE LET e2 == makeTensor(e1, addN(x, PixOf(e1, noise)))
                e3 == makeTensor(e2, clipByValue(PixOf(e2, LastId(e2)), 0, PixScale))
                sheared == LastId(e3)
                e4 == dispose(e3, noise)
            IN Returned(endScope(e4, {sheared}), sheared, shear)

\* shearAugmentation(imageData, shearFactor, shearRange)
shearAugmentation(e, imageData, shearFactor, shearRange, rnd, nz) ==
    LET range == Nullish(shearRange, DefaultShearRange)
        shear == Nullish(shearFactor, SampleUniform(rnd, range))
    IN IF shearOutside(shear)
       THEN Thrown(e, RangeViolation("Shear", shear, << MIN_SHEAR, MAX_SHEAR >>), shear)
       ELSE LET e0 == startScope(e)
            IN IF Abs(shear) < SHEAR_EPSILON
               THEN LET e1 == clone(e0, imageData)
                    IN Returned(endScope(e1, {LastId(e1)}), LastId(e1), shear)
               ELSE LET noiseAmount == Abs(shear) \div 10
                        x == PixOf(e0, imageData)
                        e1 == makeTensor(e0, randomNormal(Rows(x), Cols(x), noiseAmount, nz))
                        noise == LastId(e1)
                        e2 == makeTensor(e1, addN(x, PixOf(e1, noise)))
                        e3 == makeTensor(e2, clipByValue(PixOf(e2, LastId(e2)), 0, PixScale))
                        sheared == LastId(e3)
                        e4 == dispose(e3, noise)
                    IN Returned(endScope(e4, {sheared}), sheared, shear)

\* one stage of a call: the transform that ran, its input tensor, what came out
StageRec(name, in, r) ==
    [name |-> name, in |-> in, ok |-> r.ok, out |-> r.out, used |-> r.used,
     err |-> r.err]

WithStages(r, stages) ==
    [eng |-> r.eng, ok |-> r.ok, out |-> r.out, err |-> r.err, used |-> r.used,
     stages |-> stages]

\* A stage of augmentImage threw: the error leaves through the enclosing
\* tf.tidy, which ends its scope keeping nothing.
\* (variant: the error leaves without the scope being ended)
augmentThrown_noCleanup(r, stages) ==
    WithStages(Thrown(r.eng, r.err, None), stages)
augmentThrown(r, stages) ==
    WithStages(Thrown(endScope(r.eng, {}), r.err, None), stages)

\* augmentImage after stage 4 (shift, run on zoomed, came out as r4):
\* zoomed.dispose(); return augmented
augmentAfterShift(zoomed, stages, r4) ==
    IF ~r4.ok THEN augmentThrown(r4, Append(stages, StageRec("shift", zoomed, r4)))
    ELSE WithStages(Returned(endScope(dispose(r4.eng, zoomed), {r4.out}), r4.out, None),
                    Append(stages, StageRec("shift", zoomed, r4)))

\* (variant: stage 4 is handed the sheared image, not the zoomed one)
augmentAfterZoom_fromSheared(config, d, sheared, stages, r3) ==
    IF ~r3.ok THEN augmentThrown(r3, Append(stages, StageRec("zoom", sheared, r3)))
    ELSE augmentAfterShift(sheared,
             Append(stages, StageRec("zoom", sheared, r3)),
             shiftAugmentation(dispose(r3.eng, r3.out), sheared, None,
                               config.shiftRange, d.sw, d.sh))

\* augmentImage after stage 3 (zoom, run on sheared, came out as r3):
\* sheared.dispose(); stage 4, shift, on the zoomed image
augmentAfterZoom(config, d, sheared, stages, r3) ==
    IF ~r3.ok THEN augmentThrown(r3, Append(stages, StageRec("zoom", sheared, r3)))
    ELSE augmentAfterShift(r3.out,
             Append(stages, StageRec("zoom", sheared, r3)),
             shiftAugmentation(dispose(r3.eng, sheared), r3.out, None,
                               config.shiftRange, d.sw, d.sh))

\* augmentImage after stage 2 (shear, run on rotated, came out as r2):
\* rotated.dispose(); stage 3, zoom, on the sheared image
augmentAfterShear(config, d, rotated, stages, r2) ==
    IF ~r2.ok THEN augmentThrown(r2, Append(stages, StageRec("shear", rotated, r2)))
    ELSE augmentAfterZoom(config, d, r2.out,
             Append(stages, StageRec("shear", rotated, r2)),
             zoomAugmentation(dispose(r2.eng, rotated), r2.out, None,
                              config.zoomRange, d.zoom))

\* (variant: after a failed rotation the shear value is still sampled and
\* checked, and its error, if any, is the one that leaves)
augmentAfterRotate_lastError(config, d, imageData, r1) ==
    IF ~r1.ok
    THEN IF shearOutside(SampleUniform(d.shear,
                             Nullish(config.shearRange, DefaultShearRange)))
         THEN augmentThrown(
                  Thrown(r1.eng,
                         RangeViolation("Shear",
                             SampleUniform(d.shear,
                                 Nullish(config.shearRange, DefaultShearRange)),
                             << MIN_SHEAR, MAX_SHEAR >>), None),
                  << StageRec("rotate", imageData, r1) >>)
         ELSE augmentThrown(r1, << StageRec("rotate", imageData, r1) >>)
    ELSE augmentAfterShear(config, d, r1.out,
             << StageRec("rotate", imageData, r1) >>,
             shearAugmentation(r1.eng, r1.out, None, config.shearRange,
                               d.shear, d.nzShear))

\* augmentImage after stage 1 (rotate, run on imageData, came out as r1):
\* stage 2, shear, on the rotated image
augmentAfterRotate(config, d, imageData, r1) ==
    IF ~r1.ok THEN augmentThrown(r1, << StageRec("rotate", imageData, r1) >>)
    ELSE augmentAfterShear(config, d, r1.out,
             << StageRec("rotate", imageData, r1) >>,
             shearAugmentation(r1.eng, r1.out, None, config.shearRange,
                               d.shear, d.nzShear))

\* let augmented = imageData.clone(); augmented.dispose()
cloneAndDispose(e, t) == dispose(clone(e, t), e.nextTensorId)

\* augmentImage(imageData, config): config holds the four optional ranges, d
\* the Math.random() draws (rot, shear, zoom, sw, sh) and the tf.randomNormal
\* sample fields (nzRot, nzShear) of the call.  Stage 1, rotation, works on
\* imageData itself.
augmentImage(e, imageData, config, d) ==
    augmentAfterRotate(config, d, imageData,
        rotateAugmentation(cloneAndDispose(startScope(e), imageData), imageData,
                           None, config.rotationRange, d.rot, d.nzRot))

\* ------------------------------------------------------------- test inputs
\* 28x28x1 images with intensities in [0, 1]: the test suite's tf.ones, an
\* all-background image, and a ramp whose pixels differ along both axes.
ImageKinds == {"ones", "blank", "ramp"}
TestSize == 28

TestPixel(kind, r, c) ==
    CASE kind = "ones" -> PixScale
      [] kind = "blank" -> 0
      [] OTHER -> ((r * TestSize + c) * PixScale) \div (TestSize * TestSize)

TestImagePix(kind) ==
    [r \in 1..TestSize |-> [c \in 1..TestSize |-> TestPixel(kind, r - 1, c - 1)]]

\* Math.random() draws: the low end, the middle and the top of [0, 1)
RandomDraws == {0, RandomScale \div 2, RandomScale - 1}

Range(lo, hi) == [min |-> lo, max |-> hi]
Tenth(n) == (n * Unit) \div 10

ExplicitAngles ==
    {0 - 25 * Unit, 0 - 15 * Unit - 100, 0 - 15 * Unit, 0 - 500, 0, 1000,
     Tenth(75), 15 * Unit, 15 * Unit + 100, 20 * Unit}

RotateArgs ==
    {[angle |-> Some(a), range |-> None] : a \in ExplicitAngles}
    \cup {[angle |-> Some(12 * Unit), range |-> Some(Range(0 - 10 * Unit, 10 * Unit))]}
    \cup {[angle |-> None, range |-> rg] :
            rg \in {None, Some(Range(0 - 10 * Unit, 10 * Unit)),
                    Some(Range(0 - 30 * Unit, 30 * Unit))}}

ShiftValues == (0 - 5)..5

ShiftArgs ==
    {[shift |-> Some([width |-> Some(w), height |-> Some(h)]), range |-> None] :
        w \in ShiftValues, h \in ShiftValues}
    \cup {[shift |-> Some([width |-> Some(3), height |-> None]), range |-> None],
          [shift |-> Some([width |-> None, height |-> Some(0 - 2)]), range |-> None],
          [shift |-> Some([width |-> Some(4), height |-> Some(0)]),
           range |-> Some([width |-> 3, height |-> 3])]}
    \cup {[shift |-> None, range |-> rg] :
            rg \in {None, Some([width |-> 3, height |-> 3]),
                    Some([width |-> 6, height |-> 6])}}

ExplicitZooms ==
    {Tenth(5), Tenth(8) - 1, Tenth(8), 8750, Tenth(9), Unit - 9, Unit, Unit + 9,
     Unit + 10, Tenth(11), Tenth(12), Tenth(12) + 1, Tenth(15)}

ZoomArgs ==
    {[factor |-> Some(z), range |-> None] : z \in ExplicitZooms}
    \cup {[factor |-> Some(Tenth(12)), range |-> Some(Range(Tenth(9), Tenth(11)))]}
    \cup {[factor |-> None, range |-> rg] :
            rg \in {None, Some(Range(Tenth(9), Tenth(11))),
                    Some(Range(Tenth(5), Tenth(15)))}}

ExplicitShears ==
    {0 - Tenth(5), 0 - Tenth(2) - 1, 0 - Tenth(2), 0 - Tenth(1), 0 - 9, 0, 10,
     Tenth(2), Tenth(2) + 1, Tenth(3)}

ShearArgs ==
    {[factor |-> Some(s), range |-> None] : s \in ExplicitShears}
    \cup {[factor |-> None, range |-> rg] :
            rg \in {None, Some(Range(0 - Tenth(1), Tenth(1))),
                    Some(Range(0 - Tenth(5), Tenth(5)))}}

\* augment configurations: the default, the README's custom one, every range
\* collapsed to its identity value, and one wider than the domain bounds
DefaultConfig ==
    [rotationRange |-> None, shearRange |-> None, zoomRange |-> None,
     shiftRange |-> None]
CustomConfig ==
    [rotationRange |-> Some(Range(0 - 10 * Unit, 10 * Unit)),
     shearRange |-> Some(Range(0 - Tenth(1), Tenth(1))),
     zoomRange |-> Some(Range(Tenth(9), Tenth(11))),
     shiftRange |-> Some([width |-> 3, height |-> 3])]
IdentityConfig ==
    [rotationRange |-> Some(Range(0, 0)), shearRange |-> Some(Range(0, 0)),
     zoomRange |-> Some(Range(Unit, Unit)),
     shiftRange |-> Some([width |-> 0, height |-> 0])]
WideConfig ==
    [rotationRange |-> Some(Range(0 - 30 * Unit, 30 * Unit)),
     shearRange |-> Some(Range(0 - Tenth(5), Tenth(5))),
     zoomRange |-> Some(Range(Tenth(5), Tenth(15))),
     shiftRange |-> Some([width |-> 6, height |-> 6])]
\* the default ranges, except a shift range wider than the domain bound
WideShiftConfig ==
    [rotationRange |-> None, shearRange |-> None, zoomRange |-> None,
     shiftRange |-> Some([width |-> 6, height |-> 6])]
Configs == {DefaultConfig, CustomConfig, IdentityConfig, WideConfig, WideShiftConfig}

\* --------------------------------------------------------------- the state
\* engine: the tfjs engine; testImage: the handle of the input tensor;
\* inputPix: the pixels the input was created with; call: the call the caller
\* made last; batch: the results the caller holds undisposed when it keeps
\* several at a time (empty while it works one call at a time)
\* layout: the resize layout computed last when zoom's arithmetic is followed
\* factor by factor; web: the state of the web component
VARIABLES engine, testImage, inputPix, call, batch, layout, web
vars == << engine, testImage, inputPix, call, batch, layout, web >>

\* no layout computed yet
NoLayout == [factor |-> 0]

\* the web component as mounted: nothing predicted, nothing drawn, no request
\* under way
WebMounted ==
    [isDrawing |-> FALSE, prediction |-> None, confidence |-> None,
     allPredictions |-> << >>, isProcessing |-> FALSE, canvas |-> "blank",
     inFlight |-> << >>, lastAction |-> "mount"]

NoCall == [state |-> "idle"]

\* what the caller knows after a call: the operation, its arguments, the
\* outcome, and the engine's tensor counts from before the call
CallRec(op, args, before, r) ==
    [state |-> "returned", op |-> op, args |-> args, input |-> testImage,
     ok |-> r.ok, out |-> r.out, err |-> r.err, stages |-> r.stages,
     numBefore |-> NumTensors(before), idBefore |-> before.nextTensorId]

\* beforeEach: the test creates its input tensor
Init ==
    /\ \E kind \in ImageKinds :
          /\ inputPix = TestImagePix(kind)
          /\ engine = makeTensor(EmptyEngine, inputPix)
    /\ testImage = 0
    /\ call = NoCall
    /\ batch = << >>
    /\ layout = NoLayout
    /\ web = WebMounted

CanCall == call.state = "idle"

Finish(op, args, r) ==
    /\ engine' = r.eng
    /\ call' = CallRec(op, args, engine, r)
    /\ UNCHANGED << testImage, inputPix, batch, layout, web >>

\* Math.random() is called only for an argument that is undefined (a ?? b
\* evaluates b only then): an explicit argument consumes no draw
DrawsFor(arg) == IF arg = None THEN RandomDraws ELSE {0}

CallRotate ==
    /\ CanCall
    /\ \E a \in RotateArgs, nz \in 1..NumNoiseFields :
       \E rnd \in DrawsFor(a.angle) :
          LET r == rotateAugmentation(engine, testImage, a.angle, a.range, rnd, nz)
          IN Finish("rotate", a, WithStages(r, << StageRec("rotate", testImage, r) >>))

CallShift ==
    /\ CanCall
    /\ \E a \in ShiftArgs :
       \E rw \in DrawsFor(ShiftField(a.shift, "width")),
          rh \in DrawsFor(ShiftField(a.shift, "height")) :
          LET r == shiftAugmentation(engine, testImage, a.shift, a.range, rw, rh)
          IN Finish("shift", a, WithStages(r, << StageRec("shift", testImage, r) >>))

CallZoom ==
    /\ CanCall
    /\ \E a \in ZoomArgs :
       \E rnd \in DrawsFor(a.factor) :
          LET r == zoomAugmentation(engine, testImage, a.factor, a.range, rnd)
          IN Finish("zoom", a, WithStages(r, << StageRec("zoom", testImage, r) >>))

CallShear ==
    /\ CanCall
    /\ \E a \in ShearArgs, nz \in 1..NumNoiseFields :
       \E rnd \in DrawsFor(a.factor) :
          LET r == shearAugmentation(engine, testImage, a.factor, a.range, rnd, nz)
          IN Finish("shear", a, WithStages(r, << StageRec("shear", testImage, r) >>))

\* the draws of one augment call: one Math.random() draw per stage for
\* rotation, shear and zoom, two for the shift axes, and the sample fields of
\* the two tf.randomNormal calls
AugmentDraws ==
    {[rot |-> rot, shear |-> shear, zoom |-> zoom, sw |-> sw, sh |-> sh,
      nzRot |-> nzRot, nzShear |-> nzShear] :
        rot \in RandomDraws, shear \in RandomDraws, zoom \in RandomDraws,
        sw \in RandomDraws, sh \in RandomDraws,
        nzRot \in 1..NumNoiseFields, nzShear \in 1..NumNoiseFields}

CallAugment ==
    /\ CanCall
    /\ \E config \in Configs, d \in AugmentDraws :
          Finish("augment", [config |-> config],
                 augmentImage(engine, testImage, config, d))

\* result.dispose() by the caller
DisposeResult ==
    /\ call.state = "returned"
    /\ call.ok
    /\ engine' = dispose(engine, call.out)
    /\ call' = [call EXCEPT !.state = "disposed"]
    /\ UNCHANGED << testImage, inputPix, batch, layout, web >>

\* Tensor and data ids are opaque: the program only compares them.  Once the
\* caller holds no handle of a finished call any more, the engine's numbering
\* restarts above the ids still live, which folds all the states that differ
\* in nothing but the ids already used up.
MaxOf(S) == CHOOSE m \in S : \A x \in S : x <= m
forgetHandles(e) ==
    [e EXCEPT !.nextTensorId = 1 + MaxOf(DOMAIN e.tensors \cup {0 - 1}),
              !.nextDataId = 1 + MaxOf(DOMAIN e.data \cup {0 - 1})]

\* the caller goes on to its next call: after disposing the result, or after
\* catching the error of a call that threw
NextCall ==
    /\ \/ call.state = "disposed"
       \/ call.state = "returned" /\ ~call.ok
    /\ call' = NoCall
    /\ engine' = forgetHandles(engine)
    /\ UNCHANGED << testImage, inputPix, batch, layout, web >>

Next ==
    \/ CallRotate
    \/ CallShift
    \/ CallZoom
    \/ CallShear
    \/ CallAugment
    \/ DisposeResult
    \/ NextCall

Spec == Init /\ [][Next]_vars

\* ------------------------------------------ several results held at a time
\* The caller of a training loop augments the same sample several times and
\* holds the results side by side: a call is issued while earlier results are
\* still undisposed, and the results are disposed in any order.  JavaScript
\* runs each call to completion, so calls and disposals interleave as whole
\* steps.
MaxOutstanding == 2

\* the draws of a call that samples nothing, or whose draws all come out at
\* the low end of [0, 1)
LowDraws ==
    [rot |-> 0, shear |-> 0, zoom |-> 0, sw |-> 0, sh |-> 0, nzRot |-> 1, nzShear |-> 1]

\* the calls issued side by side, each with its draws: the copy paths of
\* rotate and zoom, a rotate that raises, a shift, augment with collapsed
\* ranges (copies all the way), rotate by 7.5 and shear by 0.1 with each
\* noise field, and augment with a shift range of 6, which raises at stage 4
\* when the width draw is low and returns when it is in the middle
BatchCalls ==
    {[op |-> "rotate", args |-> [angle |-> Some(0), range |-> None], d |-> LowDraws],
     [op |-> "rotate", args |-> [angle |-> Some(20 * Unit), range |-> None],
      d |-> LowDraws],
     [op |-> "zoom", args |-> [factor |-> Some(Unit), range |-> None], d |-> LowDraws],
     [op |-> "shift",
      args |-> [shift |-> Some([width |-> Some(2), height |-> Some(1)]), range |-> None],
      d |-> LowDraws],
     [op |-> "augment", args |-> [config |-> IdentityConfig], d |-> LowDraws]}
    \cup {[op |-> "rotate", args |-> [angle |-> Some(Tenth(75)), range |-> None],
           d |-> [LowDraws EXCEPT !.nzRot = nz]] : nz \in 1..NumNoiseFields}
    \cup {[op |-> "shear", args |-> [factor |-> Some(Tenth(1)), range |-> None],
           d |-> [LowDraws EXCEPT !.nzShear = nz]] : nz \in 1..NumNoiseFields}
    \cup {[op |-> "augment", args |-> [config |-> WideShiftConfig],
           d |-> [LowDraws EXCEPT !.sw = sw, !.sh = RandomScale \div 2]] :
              sw \in {0, RandomScale \div 2}}

\* the call c made on tensor t of engine e
runCall(e, t, c) ==
    CASE c.op = "rotate" ->
           rotateAugmentation(e, t, c.args.angle, c.args.range, c.d.rot, c.d.nzRot)
      [] c.op = "shift" ->
           shiftAugmentation(e, t, c.args.shift, c.args.range, c.d.sw, c.d.sh)
      [] c.op = "zoom" ->
           zoomAugmentation(e, t, c.args.factor, c.args.range, c.d.zoom)
      [] c.op = "shear" ->
           shearAugmentation(e, t, c.args.factor, c.args.range, c.d.shear, c.d.nzShear)
      [] OTHER -> augmentImage(e, t, c.args.config, c.d)

\* Ids are opaque (see forgetHandles).  With several handles held, the states
\* that differ only in which ids were used up are folded by renumbering the
\* live tensors and data 0, 1, 2, ... in the order they were created; the
\* caller's handles are renumbered along.
RankIn(S, t) == Cardinality({u \in S : u < t})
IdAt(S, i) == CHOOSE t \in S : RankIn(S, t) = i
renumber(e) ==
    LET T == DOMAIN e.tensors
        D == DOMAIN e.data
    IN [e EXCEPT !.tensors = [i \in 0..(Cardinality(T) - 1) |->
                                [shape |-> e.tensors[IdAt(T, i)].shape,
                                 dataId |-> RankIn(D, e.tensors[IdAt(T, i)].dataId)]],
                 !.data = [i \in 0..(Cardinality(D) - 1) |-> e.data[IdAt(D, i)]],
                 !.nextTensorId = Cardinality(T),
                 !.nextDataId = Cardinality(D)]
\* handle t of engine e after renumber(e)
renumbered(e, t) == RankIn(DOMAIN e.tensors, t)

\* a result the caller holds: the call that made it, its handle, and the
\* pixels it had when the call returned
HeldRec(c, e, t) == [c |-> c, out |-> renumbered(e, t), pix |-> PixOf(e, t)]

\* the last call issued, as the caller saw it end
IssuedRec(c, r) ==
    [state |-> "returned", op |-> c.op, args |-> c.args, d |-> c.d, ok |-> r.ok,
     err |-> r.err, pix |-> IF r.ok THEN PixOf(r.eng, r.out) ELSE << >>]

\* call c has ended as r: the caller keeps the result, if there is one
Issued(c, r) ==
    /\ engine' = renumber(r.eng)
    /\ call' = IssuedRec(c, r)
    /\ batch' = IF r.ok THEN Append(batch, HeldRec(c, r.eng, r.out)) ELSE batch
    /\ UNCHANGED << testImage, inputPix, layout, web >>

\* one more call, with room left for its result
IssueCall ==
    /\ Len(batch) < MaxOutstanding
    /\ \E c \in BatchCalls : Issued(c, runCall(engine, testImage, c))

\* batch without its i-th result, the handles after it renumbered
dropHeld(held, e, i) ==
    [k \in 1..(Len(held) - 1) |->
        LET h == IF k < i THEN held[k] ELSE held[k + 1]
        IN [h EXCEPT !.out = renumbered(e, h.out)]]

\* result.dispose() on any of the results held
DisposeHeld ==
    /\ \E i \in 1..Len(batch) :
          LET e == dispose(engine, batch[i].out)
          IN /\ engine' = renumber(e)
             /\ batch' = dropHeld(batch, e, i)
    /\ UNCHANGED << testImage, inputPix, call, layout, web >>

InitBatch ==
    /\ \E kind \in ImageKinds :
          /\ inputPix = TestImagePix(kind)
          /\ engine = makeTensor(EmptyEngine, inputPix)
    /\ testImage = 0
    /\ call = NoCall
    /\ batch = << >>
    /\ layout = NoLayout
    /\ web = WebMounted

NextBatch ==
    \/ IssueCall
    \/ DisposeHeld

SpecBatch == InitBatch /\ [][NextBatch]_vars

\* ------------------------------------------- augment, the draws kept in view
\* augment with ranges wider than the domain bounds, so that the values
\* sampled for several stages can be out of bounds in the same call; the
\* draws of the call are kept with its arguments
DrawnConfigs == {WideConfig, WideShiftConfig}

CallAugmentDrawn ==
    /\ CanCall
    /\ \E config \in DrawnConfigs, d \in AugmentDraws :
          Finish("augment", [config |-> config, d |-> d],
                 augmentImage(engine, testImage, config, d))

NextDrawn ==
    \/ CallAugmentDrawn
    \/ DisposeResult
    \/ NextCall

SpecDrawn == Init /\ [][NextDrawn]_vars

\* ---------------------------------------------------- zoom, factor by factor
\* every factor of the domain [0.8, 1.2], at the resolution of the model
ZoomFactors == MIN_ZOOM..MAX_ZOOM

\* what zoomAugmentation works out from the factor: the size it resizes to,
\* where the crop window starts (enlarge branch), the padding before and
\* after the content (shrink branch)
zoomLayout(zoom) ==
    [factor |-> zoom,
     newSize |-> RoundUnits(CANVAS_SIZE * zoom),
     cropStart |-> cropStartOf(RoundUnits(CANVAS_SIZE * zoom)),
     padAmount |-> padBefore(RoundUnits(CANVAS_SIZE * zoom)),
     rest |-> padAfter(RoundUnits(CANVAS_SIZE * zoom),
                       padBefore(RoundUnits(CANVAS_SIZE * zoom)))]

\* zoomAugmentation(testImage, zoom) has ended as r
Zoomed(a, r) ==
    /\ engine' = r.eng
    /\ call' = CallRec("zoom", a, engine,
                       WithStages(r, << StageRec("zoom", testImage, r) >>))
    /\ layout' = zoomLayout(a.factor[1])
    /\ UNCHANGED << testImage, inputPix, batch, web >>

ZoomAt ==
    /\ CanCall
    /\ \E zoom \in ZoomFactors :
          Zoomed([factor |-> Some(zoom), range |-> None],
                 zoomAugmentation(engine, testImage, Some(zoom), None, 0))

\* the caller disposes the result, if there is one, and goes on
ZoomNext ==
    /\ call.state = "returned"
    /\ engine' = forgetHandles(IF call.ok THEN dispose(engine, call.out) ELSE engine)
    /\ call' = NoCall
    /\ layout' = NoLayout
    /\ UNCHANGED << testImage, inputPix, batch, web >>

NextZoom ==
    \/ ZoomAt
    \/ ZoomNext

SpecZoom == Init /\ [][NextZoom]_vars

\* ------------------------------------------------ inputs of other sizes
\* imageData is declared as a tf.Tensor3D of any shape: square NxNx1 inputs
\* smaller and larger than the canvas, with the same three contents
OtherSizes == {20, 32}

SizedPixel(kind, n, r, c) ==
    CASE kind = "ones" -> PixScale
      [] kind = "blank" -> 0
      [] OTHER -> ((r * n + c) * PixScale) \div (n * n)

SizedImagePix(kind, n) ==
    [r \in 1..n |-> [c \in 1..n |-> SizedPixel(kind, n, r - 1, c - 1)]]

InitSized ==
    /\ \E kind \in ImageKinds, n \in OtherSizes :
          /\ inputPix = SizedImagePix(kind, n)
          /\ engine = makeTensor(EmptyEngine, inputPix)
    /\ testImage = 0
    /\ call = NoCall
    /\ batch = << >>
    /\ layout = NoLayout
    /\ web = WebMounted

\* zoom with an explicit factor, the layout it works out recorded
ZoomSized ==
    /\ CanCall
    /\ \E zoom \in ExplicitZooms :
          Zoomed([factor |-> Some(zoom), range |-> None],
                 zoomAugmentation(engine, testImage, Some(zoom), None, 0))

NextSized ==
    \/ CallShift
    \/ ZoomSized
    \/ ZoomNext

SpecSized == InitSized /\ [][NextSized]_vars

\* ------------------------------------------------------ the web component
\* web.inFlight holds the predictDigit calls that are suspended at an await:
\* "fetch" before the response arrives, "json" before its body is parsed.
\* web.lastAction is the last of mount / stopDrawing / clearCanvas to run.
Digits == 0..9

\* probabilities (in units of 1/Unit) a prediction comes with
Probabilities == {(7 * Unit) \div 10, (99 * Unit) \div 100}
OtherProbability == Unit \div 100

\* (prob * 100).toFixed(1), in tenths of a percent
PercentFixed1(prob) == (prob * 1000 + Unit \div 2) \div Unit

\* probabilities.map((prob, idx) => ({digit: idx, confidence})).sort(by
\* confidence, descending): the predicted digit first, the others, of equal
\* confidence, in index order
RankedPredictions(digit, prob) ==
    << [digit |-> digit, confidence |-> PercentFixed1(prob)] >>
    \o [k \in 1..9 |->
          [digit |-> IF k - 1 < digit THEN k - 1 ELSE k,
           confidence |-> PercentFixed1(OtherProbability)]]

RemoveAt(seq, i) == SubSeq(seq, 1, i - 1) \o SubSeq(seq, i + 1, Len(seq))

\* simulateLocalPrediction() run on the component state w
simulateLocalPrediction(w, predictedDigit, prob) ==
    [w EXCEPT !.prediction = Some(predictedDigit),
              !.confidence = Some(PercentFixed1(prob)),
              !.allPredictions = RankedPredictions(predictedDigit, prob)]

\* the web component alone: it creates no tensor and makes no augmentation
\* call, the variables of the pipeline stay empty
WebOnly(w) ==
    /\ web' = w
    /\ UNCHANGED << engine, testImage, inputPix, call, batch, layout >>

InitWeb ==
    /\ inputPix = << >>
    /\ engine = EmptyEngine
    /\ testImage = 0
    /\ call = NoCall
    /\ batch = << >>
    /\ layout = NoLayout
    /\ web = WebMounted

\* onMouseDown
startDrawing ==
    /\ web' = [web EXCEPT !.isDrawing = TRUE]
    /\ UNCHANGED << engine, testImage, inputPix, call, batch, layout >>

\* onMouseMove while the button is down: a stroke is painted
draw ==
    /\ web.isDrawing
    /\ WebOnly([web EXCEPT !.canvas = "drawn"])

\* onMouseUp / onMouseLeave: setIsDrawing(false); predictDigit() up to its
\* first await.  When validateInput rejects the canvas data the prediction is
\* simulated at once and the call completes; otherwise the request is sent
\* and the call is suspended.
stopDrawing ==
    /\ Len(web.inFlight) < MaxInFlight
    /\ LET w == [web EXCEPT !.isDrawing = FALSE, !.lastAction = "stop"]
       IN \E valid \in BOOLEAN :
             IF ~valid
             THEN \E predictedDigit \in Digits, prob \in Probabilities :
                     WebOnly([simulateLocalPrediction(w, predictedDigit, prob)
                                  EXCEPT !.isProcessing = FALSE])
             ELSE WebOnly([w EXCEPT !.isProcessing = TRUE,
                                    !.inFlight = Append(@, "fetch")])

\* the fetch of a suspended predictDigit settles: with an ok response the
\* call goes on to await response.json(); a rejection or a response that is
\* not ok is caught, the prediction simulated, and the call completes
fetchSettles ==
    \E i \in DOMAIN web.inFlight :
        /\ web.inFlight[i] = "fetch"
        /\ \E ok \in BOOLEAN :
              IF ok
              THEN WebOnly([web EXCEPT !.inFlight[i] = "json"])
              ELSE \E predictedDigit \in Digits, prob \in Probabilities :
                      WebOnly([simulateLocalPrediction(web, predictedDigit, prob)
                                   EXCEPT !.inFlight = RemoveAt(@, i),
                                          !.isProcessing = FALSE])

\* response.json() of a suspended predictDigit settles: the body carries a
\* result with allProbabilities ("full"), a result without ("partial"), or
\* no result / not JSON ("none": the prediction is simulated); then finally
\* setIsProcessing(false)
jsonSettles ==
    \E i \in DOMAIN web.inFlight :
        /\ web.inFlight[i] = "json"
        /\ \E body \in {"full", "partial", "none"},
              predictedDigit \in Digits, prob \in Probabilities :
              LET w == [web EXCEPT !.inFlight = RemoveAt(@, i),
                                   !.isProcessing = FALSE]
              IN CASE body = "full" ->
                        WebOnly([w EXCEPT
                            !.prediction = Some(predictedDigit),
                            !.confidence = Some(PercentFixed1(prob)),
                            !.allPredictions = RankedPredictions(predictedDigit, prob)])
                   [] body = "partial" ->
                        WebOnly([w EXCEPT
                            !.prediction = Some(predictedDigit),
                            !.confidence = Some(PercentFixed1(prob))])
                   [] OTHER ->
                        WebOnly(simulateLocalPrediction(w, predictedDigit, prob))

\* the Clear Canvas button
clearCanvas ==
    /\ web' = [web EXCEPT !.canvas = "blank", !.prediction = None,
                          !.confidence = None, !.allPredictions = << >>,
                          !.lastAction = "clear"]
    /\ UNCHANGED << engine, testImage, inputPix, call, batch, layout >>

NextWeb ==
    \/ startDrawing
    \/ draw
    \/ stopDrawing
    \/ fetchSettles
    \/ jsonSettles
    \/ clearCanvas

SpecWeb == InitWeb /\ [][NextWeb]_vars

\* ------------------------------------------------------------ the claims
Transforms == {"rotate", "shift", "zoom", "shear"}
Returned28 == << 28, 28, 1 >>

\* a call of one transform has returned or thrown, the result not yet disposed
TransformDone(op) == call.state = "returned" /\ call.op = op

\* the explicit parameter of such a call, when no part of it is left out
ExplicitAngle == call.args.angle # None
ExplicitFactor == call.args.factor # None
ExplicitShift ==
    /\ call.args.shift # None
    /\ call.args.shift[1].width # None
    /\ call.args.shift[1].height # None
AngleArg == call.args.angle[1]
FactorArg == call.args.factor[1]
WidthArg == call.args.shift[1].width[1]
HeightArg == call.args.shift[1].height[1]

InputIs28 == ShapeOfTensor(engine, call.input) = Returned28
ResultIs28 == call.ok /\ ShapeOfTensor(engine, call.out) = Returned28

\* C1: for a 28x28x1 input and an explicit parameter inside its domain range
\* (|angle| <= 15, |w| <= 4 and |h| <= 4, 0.8 <= zoom <= 1.2,
\* -0.2 <= shear <= 0.2), rotate, shift, zoom and shear each return an image
\* of shape exactly 28x28x1.
C1_ShapeKept ==
    /\ (TransformDone("rotate") /\ ExplicitAngle /\ InputIs28
          /\ Abs(AngleArg) <= 15 * Unit) => ResultIs28
    /\ (TransformDone("shift") /\ ExplicitShift /\ InputIs28
          /\ Abs(WidthArg) <= 4 /\ Abs(HeightArg) <= 4) => ResultIs28
    /\ (TransformDone("zoom") /\ ExplicitFactor /\ InputIs28
          /\ 8 * Unit <= 10 * FactorArg /\ 10 * FactorArg <= 12 * Unit) => ResultIs28
    /\ (TransformDone("shear") /\ ExplicitFactor /\ InputIs28
          /\ 0 - 2 * Unit <= 10 * FactorArg /\ 10 * FactorArg <= 2 * Unit) => ResultIs28

\* zoom by 0.9 (resize to 25x25, then pad 1 before and 2 after) has returned
C1_Witness ==
    /\ TransformDone("zoom") /\ ExplicitFactor /\ 10 * FactorArg = 9 * Unit
    /\ InputIs28 /\ ResultIs28

\* C2: rotate with an explicit angle raises a range violation if and only if
\* |angle| > 15; the error names the angle and the limit 15; -15 and +15 are
\* accepted.
C2_RotateRaisesIff ==
    (TransformDone("rotate") /\ ExplicitAngle) =>
        /\ ~call.ok <=> Abs(AngleArg) > 15 * Unit
        /\ ~call.ok => /\ call.err.kind = "RangeViolation"
                       /\ call.err.param = "Rotation"
                       /\ call.err.value = AngleArg
                       /\ call.err.limit = << 15 * Unit >>

\* rotate by 15.01 degrees has raised
C2_Witness ==
    /\ TransformDone("rotate") /\ ExplicitAngle /\ AngleArg = 15 * Unit + 100
    /\ ~call.ok

\* C3: shift with explicit integers (w, h) raises a range violation if and
\* only if |w| > 4 or |h| > 4; the error names an axis that is out of range,
\* that axis's value and the limit 4; the corners (+-4, +-4) are accepted.
C3_ShiftRaisesIff ==
    (TransformDone("shift") /\ ExplicitShift) =>
        /\ ~call.ok <=> (Abs(WidthArg) > 4 \/ Abs(HeightArg) > 4)
        /\ ~call.ok =>
             /\ call.err.kind = "RangeViolation"
             /\ call.err.limit = << 4 >>
             /\ \/ /\ call.err.param = "Width shift"
                   /\ Abs(WidthArg) > 4
                   /\ call.err.value = WidthArg
                \/ /\ call.err.param = "Height shift"
                   /\ Abs(HeightArg) > 4
                   /\ call.err.value = HeightArg

\* shift by (0, -5) has raised on the height axis
C3_Witness ==
    /\ TransformDone("shift") /\ ExplicitShift
    /\ WidthArg = 0 /\ HeightArg = 0 - 5
    /\ ~call.ok /\ call.err.param = "Height shift"

\* C4: zoom with an explicit factor raises a range violation if and only if
\* factor < 0.8 or factor > 1.2; the error names the factor and the bounds
\* [0.8, 1.2]; 0.8 and 1.2 are accepted.
C4_ZoomRaisesIff ==
    (TransformDone("zoom") /\ ExplicitFactor) =>
        /\ ~call.ok <=> (10 * FactorArg < 8 * Unit \/ 10 * FactorArg > 12 * Unit)
        /\ ~call.ok => /\ call.err.kind = "RangeViolation"
                       /\ call.err.param = "Zoom"
                       /\ call.err.value = FactorArg
                       /\ call.err.limit = << (8 * Unit) \div 10, (12 * Unit) \div 10 >>

\* zoom by exactly 1.2 has returned
C4_Witness ==
    /\ TransformDone("zoom") /\ ExplicitFactor /\ 10 * FactorArg = 12 * Unit
    /\ call.ok

\* C5: shear with an explicit factor raises a range violation if and only if
\* factor < -0.2 or factor > 0.2; -0.2 and +0.2 are accepted.
C5_ShearRaisesIff ==
    (TransformDone("shear") /\ ExplicitFactor) =>
        /\ ~call.ok <=> (10 * FactorArg < 0 - 2 * Unit \/ 10 * FactorArg > 2 * Unit)
        /\ ~call.ok => call.err.kind = "RangeViolation" /\ call.err.param = "Shear"

\* shear by 0.2001 has raised
C5_Witness ==
    /\ TransformDone("shear") /\ ExplicitFactor /\ FactorArg = (2 * Unit) \div 10 + 1
    /\ ~call.ok

\* an explicit parameter outside its domain range
ExplicitOutOfRange ==
    /\ call.state = "returned"
    /\ \/ call.op = "rotate" /\ ExplicitAngle /\ Abs(AngleArg) > 15 * Unit
       \/ call.op = "shift" /\ ExplicitShift
            /\ (Abs(WidthArg) > 4 \/ Abs(HeightArg) > 4)
       \/ call.op = "zoom" /\ ExplicitFactor
            /\ (10 * FactorArg < 8 * Unit \/ 10 * FactorArg > 12 * Unit)
       \/ call.op = "shear" /\ ExplicitFactor
            /\ (10 * FactorArg < 0 - 2 * Unit \/ 10 * FactorArg > 2 * Unit)

\* C6: fail-fast.  A call of rotate, shift, zoom or shear with an explicit
\* out-of-range parameter raises with the engine exactly as it was before the
\* call: no tensor id was handed out, no data created, and the live tensors
\* and the input's pixels are the same.
C6_FailFast ==
    [][(call.state = "idle" /\ ExplicitOutOfRange')
          => (~call'.ok /\ engine' = engine)]_vars

\* zoom by 1.5 has raised and the engine has handed out no tensor id
C6_Witness ==
    /\ TransformDone("zoom") /\ ExplicitFactor /\ 10 * FactorArg = 15 * Unit
    /\ ~call.ok
    /\ engine.nextTensorId = call.idBefore

StageOrder == << "rotate", "shear", "zoom", "shift" >>

InDomain(config) ==
    /\ \/ config.rotationRange = None
       \/ /\ 0 - 15 * Unit <= config.rotationRange[1].min
          /\ config.rotationRange[1].min <= config.rotationRange[1].max
          /\ config.rotationRange[1].max <= 15 * Unit
    /\ \/ config.shearRange = None
       \/ /\ 0 - 2 * Unit <= 10 * config.shearRange[1].min
          /\ config.shearRange[1].min <= config.shearRange[1].max
          /\ 10 * config.shearRange[1].max <= 2 * Unit
    /\ \/ config.zoomRange = None
       \/ /\ 8 * Unit <= 10 * config.zoomRange[1].min
          /\ config.zoomRange[1].min <= config.zoomRange[1].max
          /\ 10 * config.zoomRange[1].max <= 12 * Unit
    /\ \/ config.shiftRange = None
       \/ /\ config.shiftRange[1].width \in 0..4
          /\ config.shiftRange[1].height \in 0..4

\* C8: with the default config, or a config whose ranges lie inside the
\* domain bounds, every augment call on the 28x28x1 input, first or later,
\* returns a 28x28x1 image and does not raise, whatever is sampled.
C8_AugmentNeverRaises ==
    (call.state = "returned" /\ call.op = "augment" /\ InputIs28
        /\ InDomain(call.args.config)) => ResultIs28

\* an augment call with the default config has returned after sampling the
\* ends of its ranges: rotation -15, width shift +4
C8_Witness ==
    /\ call.state = "returned" /\ call.op = "augment" /\ call.ok
    /\ call.args.config.rotationRange = None
    /\ call.args.config.shiftRange = None
    /\ call.stages[1].used = 0 - 15 * Unit
    /\ call.stages[4].used.width = 4
    /\ ShapeOfTensor(engine, call.out) = Returned28

\* every range collapsed to its identity value
Collapsed(config) ==
    /\ config.rotationRange = << [min |-> 0, max |-> 0] >>
    /\ config.shearRange = << [min |-> 0, max |-> 0] >>
    /\ config.zoomRange = << [min |-> Unit, max |-> Unit] >>
    /\ config.shiftRange = << [width |-> 0, height |-> 0] >>

\* C9: augment with rotationRange min = max = 0, shearRange min = max = 0,
\* zoomRange min = max = 1.0 and shiftRange width = height = 0 returns an
\* image whose every pixel equals the input's.
C9_IdentityConfig ==
    (call.state = "returned" /\ call.op = "augment" /\ Collapsed(call.args.config))
        => (call.ok /\ PixOf(engine, call.out) = inputPix)

\* such a call has returned on the ramp image, whose pixels are not all alike
C9_Witness ==
    /\ call.state = "returned" /\ call.op = "augment" /\ call.ok
    /\ Collapsed(call.args.config)
    /\ inputPix[1][1] # inputPix[2][3]
    /\ PixOf(engine, call.out) = inputPix

\* C10: for all integers (w, h) with |w| <= 4 and |h| <= 4, negative as well
\* as positive, shift is a translation with background fill: the output pixel
\* at (row r, column c) equals the input pixel at (r - h, c - w) when that
\* position lies inside the image and equals 0 otherwise.
C10_ShiftTranslates ==
    (TransformDone("shift") /\ ExplicitShift /\ call.ok
        /\ Abs(WidthArg) <= 4 /\ Abs(HeightArg) <= 4) =>
        LET out == PixOf(engine, call.out)
        IN \A r \in 1..Rows(out), c \in 1..Cols(out) :
              out[r][c] = IF /\ r - HeightArg \in 1..Rows(inputPix)
                             /\ c - WidthArg \in 1..Cols(inputPix)
                          THEN inputPix[r - HeightArg][c - WidthArg]
                          ELSE 0

\* every pixel of an image is background
AllBackground(pix) == \A r \in 1..Rows(pix), c \in 1..Cols(pix) : pix[r][c] = 0

\* C11: rotate by a valid angle only moves pixel values (a geometric rotation
\* about the centre, background 0 where no source content lands): for an
\* all-background input the output is all background.
C11_RotateMovesPixels ==
    (TransformDone("rotate") /\ ExplicitAngle /\ call.ok
        /\ Abs(AngleArg) <= 15 * Unit /\ AllBackground(inputPix))
        => AllBackground(PixOf(engine, call.out))

\* C12: shear by a valid factor s maps x' = x + s*y, y' = y: the top row
\* (y = 0) of the output equals the top row of the input, and every output
\* pixel is 0 or lies between the smallest and the largest input pixel of its
\* row (a value taken or interpolated from that row).
C12_ShearKeepsRows ==
    (TransformDone("shear") /\ ExplicitFactor /\ call.ok
        /\ 0 - 2 * Unit <= 10 * FactorArg /\ 10 * FactorArg <= 2 * Unit) =>
        LET out == PixOf(engine, call.out)
        IN /\ out[1] = inputPix[1]
           /\ \A r \in 1..Rows(out), c \in 1..Cols(out) :
                 \/ out[r][c] = 0
                 \/ /\ \E k \in 1..Cols(inputPix) : inputPix[r][k] <= out[r][c]
                    /\ \E k \in 1..Cols(inputPix) : out[r][c] <= inputPix[r][k]

\* the custom range supplied with a call, if any
RangeGiven == call.args.range # None
RangeArg == call.args.range[1]

\* C14: an explicit value is validated against the custom range supplied
\* with it: rotate with an angle outside the range, zoom with a factor
\* outside the range and shift with an axis value beyond its configured bound
\* each raise a range violation, also when the value lies inside the domain
\* bound.
C14_CustomRangeValidated ==
    /\ (TransformDone("rotate") /\ ExplicitAngle /\ RangeGiven
          /\ (AngleArg < RangeArg.min \/ AngleArg > RangeArg.max))
          => (~call.ok /\ call.err.kind = "RangeViolation")
    /\ (TransformDone("zoom") /\ ExplicitFactor /\ RangeGiven
          /\ (FactorArg < RangeArg.min \/ FactorArg > RangeArg.max))
          => (~call.ok /\ call.err.kind = "RangeViolation")
    /\ (TransformDone("shift") /\ ExplicitShift /\ RangeGiven
          /\ (Abs(WidthArg) > RangeArg.width \/ Abs(HeightArg) > RangeArg.height))
          => (~call.ok /\ call.err.kind = "RangeViolation")

\* every intensity of an image lies in [0, 1]
InUnitRange(pix) ==
    \A r \in 1..Rows(pix), c \in 1..Cols(pix) : 0 <= pix[r][c] /\ pix[r][c] <= PixScale

\* C15: for an input whose pixels all lie in [0, 1], every pixel of the image
\* that rotate, shift, zoom, shear or augment returns lies in [0, 1], whatever
\* the valid parameter, the noise sampled and the interpolation.
C15_IntensitiesInRange ==
    (call.state = "returned" /\ call.ok /\ InUnitRange(inputPix))
        => InUnitRange(PixOf(engine, call.out))

\* rotate by 15 degrees has returned on the all-ones image: the pixels whose
\* noise was positive were clipped back to 1, others came out below 1
C15_Witness ==
    /\ TransformDone("rotate") /\ ExplicitAngle /\ AngleArg = 15 * Unit /\ call.ok
    /\ inputPix[1][1] = PixScale /\ inputPix[2][3] = PixScale
    /\ \E r \in 1..Rows(inputPix) : PixOf(engine, call.out)[r][1] = PixScale
    /\ \E r \in 1..Rows(inputPix) : PixOf(engine, call.out)[r][1] < PixScale
    /\ InUnitRange(PixOf(engine, call.out))

\* the tensors the engine has created since the call began
CreatedByCall == engine.nextTensorId - call.idBefore

\* C16: no tensor leak.  When a transform or augment call returns, the only
\* tensor it has added to the live ones is its result: every intermediate
\* (initial clone, noise, padded, resized, each stage output inside augment)
\* is released and no tf.tidy scope is left open.  After the caller disposes
\* the result the number of live tensors equals the number before the call.
C16_NoTensorLeak ==
    /\ (call.state = "returned" /\ call.ok) =>
          /\ NumTensors(engine) = call.numBefore + 1
          /\ DOMAIN engine.tensors = {call.input, call.out}
          /\ engine.scopes = << >>
    /\ call.state = "disposed" =>
          /\ NumTensors(engine) = call.numBefore
          /\ DOMAIN engine.tensors = {call.input}
          /\ Cardinality(DOMAIN engine.data) = 1
          /\ engine.scopes = << >>

\* an augment call that ran four computing stages (rotation -15, zoom 0.8)
\* and created eleven tensors has returned and its result has been disposed
C16_Witness ==
    /\ call.state = "disposed" /\ call.op = "augment"
    /\ call.stages[1].used = 0 - 15 * Unit
    /\ call.stages[3].used = (8 * Unit) \div 10
    /\ CreatedByCall = 11
    /\ NumTensors(engine) = call.numBefore

\* C17: if a stage inside augment raises a range violation, augment raises
\* that same error and returns no image, and every tensor created by the
\* stages that already ran is released: the live tensors after the failed
\* call are those from before it.
C17_AugmentErrorPropagates ==
    (call.state = "returned" /\ call.op = "augment") =>
        \A i \in 1..Len(call.stages) :
            (~call.stages[i].ok /\ call.stages[i].err.kind = "RangeViolation") =>
                /\ ~call.ok
                /\ call.err = call.stages[i].err
                /\ call.out \notin DOMAIN engine.tensors
                /\ NumTensors(engine) = call.numBefore
                /\ DOMAIN engine.tensors = {call.input}
                /\ Cardinality(DOMAIN engine.data) = 1
                /\ engine.scopes = << >>

\* an augment call has raised shift's width error at stage 4, after rotate
\* (by -15), shear and zoom (by 0.8) had computed their images
C17_Witness ==
    /\ call.state = "returned" /\ call.op = "augment" /\ ~call.ok
    /\ Len(call.stages) = 4
    /\ call.stages[1].used = 0 - 15 * Unit
    /\ call.stages[3].used = (8 * Unit) \div 10
    /\ call.err.kind = "RangeViolation" /\ call.err.param = "Width shift"
    /\ call.err.value = 0 - 6
    /\ CreatedByCall >= 9
    /\ NumTensors(engine) = call.numBefore

\* the input tensor is live and holds the pixels it was created with
InputIntact ==
    /\ IsLive(engine, testImage)
    /\ engine.tensors[testImage].dataId \in DOMAIN engine.data
    /\ PixOf(engine, testImage) = inputPix

\* C18: no transform and no augment call mutates or disposes its input.  In
\* every state (after a call returned, after it raised, after the caller
\* disposed the result) the input tensor is live with every pixel unchanged,
\* and a returned result is a handle created by the call, never the input
\* handle itself, also on the near-zero and factor-1 copy paths.
C18_InputUntouched ==
    /\ InputIntact
    /\ (call.state = "returned" /\ call.ok) =>
          /\ call.out # call.input
          /\ call.out >= call.idBefore
          /\ IsLive(engine, call.out)

\* rotate by 0 (the copy path: the result shared the input's data) has
\* returned and its result has been disposed; the ramp input is intact
C18_Witness ==
    /\ call.state = "disposed" /\ call.op = "rotate"
    /\ ExplicitAngle /\ AngleArg = 0
    /\ inputPix[1][1] # inputPix[2][3]
    /\ InputIntact
    /\ engine.data[engine.tensors[testImage].dataId].refs = 1

\* lo <= x <= hi
Within(x, lo, hi) == lo <= x /\ x <= hi

\* the range a call samples from: the one supplied, or else the documented
\* default ([-15, 15], [0.8, 1.2], [-0.2, 0.2], 4 pixels per axis)
AngleRangeOf(rg) == IF rg = None THEN [min |-> 0 - 15 * Unit, max |-> 15 * Unit] ELSE rg[1]
ZoomRangeOf(rg) ==
    IF rg = None THEN [min |-> (8 * Unit) \div 10, max |-> (12 * Unit) \div 10] ELSE rg[1]
ShearRangeOf(rg) ==
    IF rg = None THEN [min |-> 0 - (2 * Unit) \div 10, max |-> (2 * Unit) \div 10]
    ELSE rg[1]
ShiftRangeOf(rg) == IF rg = None THEN [width |-> 4, height |-> 4] ELSE rg[1]

\* a sampled shift lies within the range on both axes
ShiftWithin(used, rg) ==
    /\ used.width \in (0 - rg.width)..rg.width
    /\ used.height \in (0 - rg.height)..rg.height

\* the value stage st of an augment call worked with lies in config's range
StageWithin(st, config) ==
    CASE st.name = "rotate" ->
           Within(st.used, AngleRangeOf(config.rotationRange).min,
                  AngleRangeOf(config.rotationRange).max)
      [] st.name = "shear" ->
           Within(st.used, ShearRangeOf(config.shearRange).min,
                  ShearRangeOf(config.shearRange).max)
      [] st.name = "zoom" ->
           Within(st.used, ZoomRangeOf(config.zoomRange).min,
                  ZoomRangeOf(config.zoomRange).max)
      [] OTHER -> ShiftWithin(st.used, ShiftRangeOf(config.shiftRange))

\* C19: when a parameter is omitted the value the call works with lies in the
\* supplied (or default) range: rotate, zoom and shear use a value in
\* [range.min, range.max]; shift uses integers in [-range.width, range.width]
\* and [-range.height, range.height]; when one shift axis is given, that axis
\* is used as is and only the other is sampled.  The same holds for each
\* stage of augment, which omits every parameter.
C19_SampledWithinRange ==
    /\ (TransformDone("rotate") /\ ~ExplicitAngle) =>
          Within(call.stages[1].used, AngleRangeOf(call.args.range).min,
                 AngleRangeOf(call.args.range).max)
    /\ (TransformDone("zoom") /\ ~ExplicitFactor) =>
          Within(call.stages[1].used, ZoomRangeOf(call.args.range).min,
                 ZoomRangeOf(call.args.range).max)
    /\ (TransformDone("shear") /\ ~ExplicitFactor) =>
          Within(call.stages[1].used, ShearRangeOf(call.args.range).min,
                 ShearRangeOf(call.args.range).max)
    /\ (TransformDone("shift") /\ ~ExplicitShift) =>
          LET used == call.stages[1].used
              rg == ShiftRangeOf(call.args.range)
              w == ShiftField(call.args.shift, "width")
              h == ShiftField(call.args.shift, "height")
          IN /\ IF w = None THEN used.width \in (0 - rg.width)..rg.width
                ELSE used.width = w[1]
             /\ IF h = None THEN used.height \in (0 - rg.height)..rg.height
                ELSE used.height = h[1]
    /\ (call.state = "returned" /\ call.op = "augment") =>
          \A i \in 1..Len(call.stages) : StageWithin(call.stages[i], call.args.config)

\* shift with only the width given (3) has returned: the width was used as
\* is and the height sampled at the top of the default range, 4
C19_Witness ==
    /\ TransformDone("shift") /\ call.ok
    /\ call.args.shift # None
    /\ call.args.shift[1].width = << 3 >>
    /\ call.args.shift[1].height = << >>
    /\ call.stages[1].used = [width |-> 3, height |-> 4]

\* C13: each transform is a pure function of (image, explicit parameters):
\* two results of rotate, shift, zoom or shear that came from the same input
\* image with the same explicit parameter value are pixel-for-pixel equal.
C13_SameArgsSameImage ==
    \A i, j \in 1..Len(batch) :
        (/\ batch[i].c.op \in Transforms
         /\ batch[i].c.op = batch[j].c.op
         /\ batch[i].c.args = batch[j].c.args)
            => PixOf(engine, batch[i].out) = PixOf(engine, batch[j].out)

\* a result the caller holds is a live tensor of its own, with the pixels it
\* had when its call returned
HeldValid(h) ==
    /\ IsLive(engine, h.out)
    /\ h.out # testImage
    /\ engine.tensors[h.out].dataId \in DOMAIN engine.data
    /\ PixOf(engine, h.out) = h.pix

\* the engine of a caller that holds nothing but the input
AloneEngine == makeTensor(EmptyEngine, inputPix)

\* the last call ended as r does: same success or failure, same error, same
\* pixels
EndedAs(r) ==
    /\ call.ok = r.ok
    /\ call.err = r.err
    /\ r.ok => call.pix = PixOf(r.eng, r.out)

\* C20: calls are independent units of work.  However transform and augment
\* calls on the same input and the disposals of their results interleave:
\* every result still held stays a live tensor with the pixels it was
\* returned with, whichever other results were disposed meanwhile (also when
\* it shares the input's data on a copy path); a call ends exactly as the
\* same call with the same draws ends when nothing else is held; the live
\* tensors are the input and the results held, so that once every result is
\* disposed the count is back to its initial value.
C20_CallsIndependent ==
    /\ InputIntact
    /\ \A i \in 1..Len(batch) : HeldValid(batch[i])
    /\ \A i, j \in 1..Len(batch) : i # j => batch[i].out # batch[j].out
    /\ call.state = "returned" =>
          EndedAs(runCall(AloneEngine, 0, [op |-> call.op, args |-> call.args, d |-> call.d]))
    /\ NumTensors(engine) = 1 + Len(batch)
    /\ engine.scopes = << >>

\* zoom by 1.0 returned a copy that shares the input's data; rotate by 0 was
\* then called, returned another such copy, and that copy has been disposed:
\* the zoom result is still held, valid, with the input's pixels
C20_Witness ==
    /\ Len(batch) = 1
    /\ batch[1].c.op = "zoom"
    /\ call.state = "returned" /\ call.op = "rotate" /\ call.args.angle = << 0 >> /\ call.ok
    /\ engine.tensors[batch[1].out].dataId = engine.tensors[testImage].dataId
    /\ engine.data[engine.tensors[testImage].dataId].refs = 2
    /\ HeldValid(batch[1])
    /\ batch[1].pix = inputPix
    /\ inputPix[1][1] # inputPix[2][3]

\* the call returned an image equal to the input pixel for pixel
ReturnedInput == call.ok /\ PixOf(engine, call.out) = inputPix

\* C21: identity parameters.  rotate with |angle| < 0.1 (0 included), shear
\* with |factor| < 0.001, zoom with |factor - 1| < 0.001 and shift by (0, 0)
\* each return an image whose every pixel equals the input's, and the value
\* the call worked with is the explicit one: an explicit 0 is not replaced
\* by a random sample.
C21_IdentityParameters ==
    /\ (TransformDone("rotate") /\ ExplicitAngle /\ 10 * Abs(AngleArg) < Unit)
          => (ReturnedInput /\ call.stages[1].used = AngleArg)
    /\ (TransformDone("shear") /\ ExplicitFactor /\ 1000 * Abs(FactorArg) < Unit)
          => (ReturnedInput /\ call.stages[1].used = FactorArg)
    /\ (TransformDone("zoom") /\ ExplicitFactor /\ 1000 * Abs(FactorArg - Unit) < Unit)
          => (ReturnedInput /\ call.stages[1].used = FactorArg)
    /\ (TransformDone("shift") /\ ExplicitShift /\ WidthArg = 0 /\ HeightArg = 0)
          => (ReturnedInput /\ call.stages[1].used = [width |-> 0, height |-> 0])

\* shift by an explicit (0, 0) has returned the ramp image unchanged
C21_Witness ==
    /\ TransformDone("shift") /\ ExplicitShift /\ WidthArg = 0 /\ HeightArg = 0
    /\ inputPix[1][1] # inputPix[2][3]
    /\ ReturnedInput
    /\ call.stages[1].used = [width |-> 0, height |-> 0]

\* the value a stage worked with lies inside the hard domain bound of its
\* transform
StageInDomain(st) ==
    CASE st.name = "rotate" -> Abs(st.used) <= 15 * Unit
      [] st.name = "shear" -> 0 - 2 * Unit <= 10 * st.used /\ 10 * st.used <= 2 * Unit
      [] st.name = "zoom" -> 8 * Unit <= 10 * st.used /\ 10 * st.used <= 12 * Unit
      [] OTHER -> Abs(st.used.width) <= 4 /\ Abs(st.used.height) <= 4

\* C22: every image returned by rotate, shift, zoom, shear or augment was
\* produced with parameters inside the hard domain bounds (|angle| <= 15,
\* |width shift| <= 4, |height shift| <= 4, 0.8 <= zoom <= 1.2,
\* -0.2 <= shear <= 0.2), whatever custom range was passed: a call whose
\* explicit or sampled value falls outside the bound raises and returns no
\* image.
C22_ReturnedWithinDomain ==
    call.state = "returned" =>
        /\ call.ok => \A i \in 1..Len(call.stages) : StageInDomain(call.stages[i])
        /\ (\E i \in 1..Len(call.stages) : ~StageInDomain(call.stages[i]))
              => (~call.ok /\ call.err.kind = "RangeViolation")

\* shift with no explicit value and a custom range of 6 pixels has sampled a
\* width inside the bound and a height of 6, and has raised on the height
C22_Witness ==
    /\ TransformDone("shift") /\ call.args.shift = None
    /\ call.args.range = << [width |-> 6, height |-> 6] >>
    /\ call.stages[1].used = [width |-> 0, height |-> 6]
    /\ ~call.ok /\ call.err.param = "Height shift" /\ call.err.value = 6

\* a factor outside the identity band |factor - 1| < 0.001 was laid out
LaidOut == layout # NoLayout /\ 1000 * Abs(layout.factor - Unit) >= Unit

\* C23: zoom's resize arithmetic never leaves the image.  For every factor
\* in [0.8, 1.2] outside the identity band, newSize = round(28 * factor) lies
\* in 22..34; if factor > 1 then newSize >= 28 and the crop window of length
\* 28 starting at floor((newSize - 28) / 2) lies wholly inside the resized
\* image; if factor < 1 then newSize <= 28 and the two pad amounts are both
\* >= 0 and add up with newSize to exactly 28.  The call itself returns a
\* 28x28x1 image (no slice beyond the resized image).
C23_ZoomStaysInside ==
    LaidOut =>
        /\ layout.newSize \in 22..34
        /\ layout.factor > Unit =>
              /\ layout.newSize >= 28
              /\ layout.cropStart >= 0
              /\ layout.cropStart + 28 <= layout.newSize
        /\ layout.factor < Unit =>
              /\ layout.newSize <= 28
              /\ layout.padAmount >= 0
              /\ layout.rest >= 0
              /\ layout.padAmount + layout.newSize + layout.rest = 28
        /\ ResultIs28

\* zoom by 1.2 resized to 34x34 and kept the window starting at 3
C23_Witness ==
    /\ LaidOut /\ 10 * layout.factor = 12 * Unit
    /\ layout.newSize = 34 /\ layout.cropStart = 3
    /\ ResultIs28

\* C24: zoom keeps the content centred.  For every factor < 1 the number of
\* background rows and columns padded before the resized content equals the
\* number padded after it, and for every factor > 1 the margin cropped away
\* before the kept 28x28 window equals the margin cropped away after it.
C24_ZoomCentred ==
    LaidOut =>
        /\ layout.factor < Unit => layout.padAmount = layout.rest
        /\ layout.factor > Unit =>
              layout.cropStart = layout.newSize - 28 - layout.cropStart

\* rows first..last of an image are all background
BackgroundRows(pix, first, last) ==
    \A r \in first..last, c \in 1..Cols(pix) : pix[r][c] = 0

\* C24, amended: zoom keeps the content centred to within one pixel.  For
\* factor < 1 the padding after the content is the padding before it or one
\* more (one more exactly when 28 - newSize is odd), and the returned image
\* has that many background rows before and after; for factor > 1 the margin
\* cropped after the window is the margin cropped before it or one more.
C24_ZoomCentredWithinOne ==
    LaidOut =>
        /\ layout.factor < Unit =>
              /\ layout.rest - layout.padAmount = (28 - layout.newSize) % 2
              /\ call.ok
              /\ BackgroundRows(PixOf(engine, call.out), 1, layout.padAmount)
              /\ BackgroundRows(PixOf(engine, call.out), 28 - layout.rest + 1, 28)
        /\ layout.factor > Unit =>
              (layout.newSize - 28 - layout.cropStart) - layout.cropStart
                  = (layout.newSize - 28) % 2

\* zoom by 0.9 of the all-ones image: resized to 25x25, one background row
\* before the content and two after it
C24_Witness ==
    /\ LaidOut /\ 10 * layout.factor = 9 * Unit
    /\ layout.newSize = 25 /\ layout.padAmount = 1 /\ layout.rest = 2
    /\ call.ok
    /\ inputPix[1][1] = PixScale /\ inputPix[2][3] = PixScale
    /\ BackgroundRows(PixOf(engine, call.out), 1, 1)
    /\ PixOf(engine, call.out)[2][2] = PixScale
    /\ PixOf(engine, call.out)[26][26] = PixScale
    /\ BackgroundRows(PixOf(engine, call.out), 27, 28)

\* the value stage i of the call would work with, from the call's draws
DrawnStage(i) ==
    LET config == call.args.config
        d == call.args.d
    IN CASE i = 1 -> [name |-> "rotate",
                      used |-> SampleUniform(d.rot, AngleRangeOf(config.rotationRange))]
         [] i = 2 -> [name |-> "shear",
                      used |-> SampleUniform(d.shear, ShearRangeOf(config.shearRange))]
         [] i = 3 -> [name |-> "zoom",
                      used |-> SampleUniform(d.zoom, ZoomRangeOf(config.zoomRange))]
         [] OTHER -> [name |-> "shift",
                      used |-> [width |-> SampleShift(d.sw, ShiftRangeOf(config.shiftRange).width),
                                height |-> SampleShift(d.sh, ShiftRangeOf(config.shiftRange).height)]]

\* stage i would violate its bound
WouldViolate(i) == ~StageInDomain(DrawnStage(i))

\* the parameter names an error of stage i can carry
ErrorParams(i) ==
    CASE i = 1 -> {"Rotation"}
      [] i = 2 -> {"Shear"}
      [] i = 3 -> {"Zoom"}
      [] OTHER -> {"Width shift", "Height shift"}

\* C25: when one or more stages of augment would violate their bound, the
\* error augment raises is the one of the earliest such stage in pipeline
\* order (rotation, shear, zoom, shift), and no stage after the failing one is
\* executed.
C25_EarliestStageRaises ==
    (call.state = "returned" /\ call.op = "augment") =>
        \A i \in 1..4 :
            (WouldViolate(i) /\ \A j \in 1..(i - 1) : ~WouldViolate(j)) =>
                /\ ~call.ok
                /\ call.err.kind = "RangeViolation"
                /\ call.err.param \in ErrorParams(i)
                /\ Len(call.stages) = i
                /\ call.err = call.stages[i].err
                /\ \A j \in 1..(i - 1) : call.stages[j].ok

\* with ranges wider than the bounds, rotation was sampled at -30, shear at
\* -0.5 and zoom at 0.5: the call raised the rotation error after one stage
C25_Witness ==
    /\ call.state = "returned" /\ call.op = "augment" /\ ~call.ok
    /\ WouldViolate(1) /\ WouldViolate(2) /\ WouldViolate(3)
    /\ DrawnStage(2).used = 0 - (5 * Unit) \div 10
    /\ call.err.param = "Rotation" /\ call.err.value = 0 - 30 * Unit
    /\ Len(call.stages) = 1

\* a stage that returned its input's copy without computing anything: the
\* value it used is inside the transform's identity band
CopyPath(st) ==
    CASE st.name = "rotate" -> Abs(st.used) < ROTATION_EPSILON
      [] st.name = "shear" -> Abs(st.used) < SHEAR_EPSILON
      [] st.name = "zoom" -> Abs(st.used - ONE) < ZOOM_EPSILON
      [] OTHER -> st.used.width = 0 /\ st.used.height = 0

\* C26: a range violation is raised before any geometric computation
\* executes, also from inside augment: whenever an augment call ends with a
\* range violation, no stage of that call has computed a transformed image
\* before the error was raised.
C26_NoComputationBeforeViolation ==
    (/\ call.state = "returned" /\ call.op = "augment" /\ ~call.ok
     /\ call.err.kind = "RangeViolation") =>
        \A i \in 1..(Len(call.stages) - 1) : CopyPath(call.stages[i])

\* C27: shift checks width before height.  When both |w| > 4 and |h| > 4,
\* exactly one error is raised and it names the width axis and the width
\* value; an error naming the height axis is raised only when the width is
\* within bounds.
C27_WidthCheckedFirst ==
    (TransformDone("shift") /\ ExplicitShift) =>
        /\ (Abs(WidthArg) > 4 /\ Abs(HeightArg) > 4) =>
              /\ ~call.ok
              /\ Len(call.stages) = 1
              /\ call.err = RangeViolation("Width shift", WidthArg, << 4 >>)
        /\ (~call.ok /\ call.err.param = "Height shift") => Abs(WidthArg) <= 4
        /\ Abs(WidthArg) > 4 => (~call.ok /\ call.err.param = "Width shift")

\* shift by (-5, 5), both axes out of bounds, has raised the width error
C27_Witness ==
    /\ TransformDone("shift") /\ ExplicitShift
    /\ WidthArg = 0 - 5 /\ HeightArg = 5
    /\ ~call.ok /\ call.err.param = "Width shift" /\ call.err.value = 0 - 5

\* the side of the square input image
InputSize == Rows(inputPix)

\* C28: the transforms work on the input's own size N.  For a square NxNx1
\* input with N different from 28, zoom computes newSize = round(N * factor),
\* and zoom and shift each return an image of shape NxNx1, the same as the
\* input.
C28_WorksOnInputSize ==
    (/\ call.state = "returned" /\ call.op \in {"zoom", "shift"}
     /\ InputSize # 28
     /\ StageInDomain(call.stages[1])) =>
        /\ call.ok
        /\ ShapeOfTensor(engine, call.out) = << InputSize, InputSize, 1 >>
        /\ (call.op = "zoom" /\ ~CopyPath(call.stages[1])) =>
              layout.newSize = RoundUnits(InputSize * call.stages[1].used)

\* nothing is displayed
DisplayEmpty ==
    /\ web.prediction = None
    /\ web.confidence = None
    /\ web.allPredictions = << >>

\* C29: in the web component, Clear Canvas resets the display and it stays
\* reset: after clearCanvas runs, prediction, confidence and allPredictions
\* remain empty until a later stopDrawing starts a new prediction; a
\* predictDigit request that was already in flight when clearCanvas ran does
\* not fill them in again when it completes.
C29_ClearStaysClear == web.lastAction = "clear" => DisplayEmpty

====
